---- MODULE Spec2Model ----
(***************************************************************************)
(* Model of the c3ne build helper (src/src/lib.rs): the C3FFI builder, its *)
(* accumulation methods, and attempt_compilation / compile, which render   *)
(* the c3c command line, launch the compiler and print cargo directives.   *)
(*                                                                         *)
(* Text is modelled by TLA+ strings; the TARGET identifier, which the code *)
(* splits and compares character by character, is a sequence of one-       *)
(* character strings.  A PathBuf is a record that says whether its bytes   *)
(* are valid UTF-8 (to_str() succeeds) and carries its text.               *)
(***************************************************************************)
EXTENDS Integers, Sequences, FiniteSets, TLC

\* ------------------------------------------------------------------ bounds
\* method calls per run of the accumulation specification
AccumCalls == 2
\* method calls per run of the build specification
BuildCalls == 3
\* method calls per run of the environment-variable specification
EnvCalls == 4
\* method calls per run of the head-token specification
HeadCalls == 3
\* method calls per run of the repeated-compilation specification
AgainCalls == 3
\* method calls per run of the frame specification
FrameCalls == 2
\* method calls per run of the normalization specification
TargetCalls == 3
\* items handed to one plural accumulation call (files, features, ...)
MaxBatch == 2

\* ------------------------------------------------------ options and paths
None == [some |-> FALSE]
Some(v) == [some |-> TRUE, v |-> v]

PathBuf(s) == [utf8 |-> TRUE, s |-> s]
NonUtf8PathBuf == [utf8 |-> FALSE, s |-> "\\xFF"]

\* Path::display(): lossy rendering, U+FFFD stands for the invalid bytes
display(p) == IF p.utf8 THEN p.s ELSE "U+FFFD"

\* OsStr::to_str(): None when the path is not valid UTF-8
to_str(p) == IF p.utf8 THEN Some(p.s) ELSE None

\* ------------------------------------------------------------ input sets
CompilerInputs == {"c3c", "/opt/c3c-0.7.6"}
LinkingModes == {"Static", "Dynamic"}
OptimizationLevels == {"O0", "O1", "O2", "O3", "O4", "O5", "Os", "Oz"}
FileInputs == {PathBuf("a.c3"), PathBuf("b.c3")}
UnrenderableFileInputs == {PathBuf("a.c3"), NonUtf8PathBuf}
FeatureInputs == {"foo", "bar"}
ArgInputs == {"--no-headers", "--use-old-enums"}
LinkerArgumentInputs == {"-EB", "--gc"}
EnvironmentVariableInputs == {<<"K", "A">>, <<"K", "B">>}
EnvKeys == {"K", "J"}
EnvValues == {"A", "B"}
KeyedEnvironmentVariableInputs == EnvKeys \X EnvValues
CompiledLibDirInputs == {PathBuf("libs"), PathBuf("vendor")}
CompiledLibInputs == {PathBuf("m"), PathBuf("z")}
C3LibDirInputs == {PathBuf("c3libs"), PathBuf("c3vendor")}
C3LibInputs == {PathBuf("raylib"), PathBuf("sdl")}
NameInputs == {"thing", "other"}
OutDirInputs == {None, Some("target/out"), Some("/tmp/o")}

\* the empty sequence and the sequences of n items of S: the arguments of a
\* plural call (a plural call with one item is the singular call)
Batches(S, n) == {<<>>} \cup [1..n -> S]

\* ------------------------------------------------------ TARGET identifiers
T_x86_64_unknown_linux_gnu ==
  <<"x","8","6","_","6","4","-","u","n","k","n","o","w","n","-","l","i","n","u","x","-","g","n","u">>
T_x86_64_pc_windows_gnu ==
  <<"x","8","6","_","6","4","-","p","c","-","w","i","n","d","o","w","s","-","g","n","u">>
T_aarch64_apple_darwin ==
  <<"a","a","r","c","h","6","4","-","a","p","p","l","e","-","d","a","r","w","i","n">>
T_aarch64_pc_windows_gnullvm ==
  <<"a","a","r","c","h","6","4","-","p","c","-","w","i","n","d","o","w","s","-","g","n","u","l","l","v","m">>
T_x86_64_pc_windows_msvc ==
  <<"x","8","6","_","6","4","-","p","c","-","w","i","n","d","o","w","s","-","m","s","v","c">>
T_X86_64_PC_Windows_GNU ==
  <<"X","8","6","_","6","4","-","P","C","-","W","i","n","d","o","w","s","-","G","N","U">>
T_i686_Windows_gnu ==
  <<"i","6","8","6","-","W","i","n","d","o","w","s","-","g","n","u">>
T_x86_64_windows_gnu_x ==
  <<"x","8","6","_","6","4","-","w","i","n","d","o","w","s","-","g","n","u","-","x">>
T_x86_64_windows_gnux ==
  <<"x","8","6","_","6","4","-","w","i","n","d","o","w","s","-","g","n","u","x">>
T_ARM_pc_Linux_Musl ==
  <<"A","R","M","-","p","c","-","L","i","n","u","x","-","M","u","s","l">>
T_x86_64_linux ==
  <<"x","8","6","_","6","4","-","l","i","n","u","x">>
T_wasm32 ==
  <<"w","a","s","m","3","2">>
T_empty == <<>>

\* the TARGET values of the normalization specification
AllTargets ==
  {T_x86_64_unknown_linux_gnu, T_x86_64_pc_windows_gnu, T_aarch64_apple_darwin,
   T_aarch64_pc_windows_gnullvm, T_x86_64_pc_windows_msvc, T_X86_64_PC_Windows_GNU,
   T_i686_Windows_gnu, T_x86_64_windows_gnu_x, T_x86_64_windows_gnux,
   T_ARM_pc_Linux_Musl, T_x86_64_linux, T_wasm32, T_empty}

\* ------------------------------------------------------------------ state
VARIABLES
  self,           \* the C3FFI value: one field per field of the struct
  env_OUT_DIR,    \* the process environment variable OUT_DIR (None: absent)
  env_TARGET,     \* the process environment variable TARGET (None: absent)
  stdout,         \* the lines printed so far, each <<format text, argument>>
  last,           \* what the last compile / attempt_compilation call did
  aborted,        \* the process has panicked
  env_written,    \* key -> value of the latest environment_variable call
  calls,          \* number of method calls the build script may still make
  attempts        \* number of compile / attempt_compilation calls made

vars == <<self, env_OUT_DIR, env_TARGET, stdout, last, aborted, env_written, calls, attempts>>

\* Vec::contains
contains(vec, x) == \E i \in 1..Len(vec) : vec[i] = x

\* HashMap::insert on a map kept as a set of <<key, value>> pairs
insert(map, key, value) == {p \in map : p[1] # key} \cup {<<key, value>>}

\* C3FFI::new()
new ==
  [compiler |-> "c3c",
   linking_mode |-> "Static",
   optimization_level |-> "O0",
   debug_info |-> TRUE,
   files |-> <<>>,
   features |-> <<>>,
   args |-> <<>>,
   environment_variables |-> <<>>,
   linker_arguments |-> <<>>,
   compiled_lib_dirs |-> <<>>,
   compiled_libs |-> <<>>,
   c3_lib_dirs |-> <<>>,
   c3_libs |-> <<>>]

\* no compile / attempt_compilation call has been made yet
NoAttempt ==
  [op |-> "none", name |-> "", config |-> new, result |-> "none",
   child |-> "not_run",
   program |-> "", c3_target |-> "", argv |-> <<>>, envs |-> {}, emitted |-> <<>>]


\* ------------------------------------------------- builder method bodies
\* A method body maps the C3FFI value to the value after the call.  file
\* also prints, so its body works on the pair of the value and stdout.

do_file(st, file) ==
  IF ~contains(st.self.files, file)
  THEN [self |-> [st.self EXCEPT !.files = Append(@, file)],
        stdout |-> Append(st.stdout, <<"cargo::rerun-if-changed=", display(file)>>)]
  ELSE st

RECURSIVE do_files(_, _)
do_files(st, files) ==
  IF files = <<>> THEN st ELSE do_files(do_file(st, Head(files)), Tail(files))

do_feature(s, feature) ==
  IF ~contains(s.features, feature)
  THEN [s EXCEPT !.features = Append(@, feature)]
  ELSE s

RECURSIVE do_features(_, _)
do_features(s, features) ==
  IF features = <<>> THEN s ELSE do_features(do_feature(s, Head(features)), Tail(features))

do_arg(s, arg) ==
  IF ~contains(s.args, arg)
  THEN [s EXCEPT !.args = Append(@, arg)]
  ELSE s

RECURSIVE do_args(_, _)
do_args(s, args) ==
  IF args = <<>> THEN s ELSE do_args(do_arg(s, Head(args)), Tail(args))

do_linker_argument(s, linker_argument) ==
  IF ~contains(s.linker_arguments, linker_argument)
  THEN [s EXCEPT !.linker_arguments = Append(@, linker_argument)]
  ELSE s

RECURSIVE do_linker_arguments(_, _)
do_linker_arguments(s, linker_arguments) ==
  IF linker_arguments = <<>> THEN s
  ELSE do_linker_arguments(do_linker_argument(s, Head(linker_arguments)),
                           Tail(linker_arguments))

\* mutant: the membership check is dropped
do_environment_variable_unchecked(s, environment_variable) ==
  [s EXCEPT !.environment_variables = Append(@, environment_variable)]

do_environment_variable(s, environment_variable) ==
  IF ~contains(s.environment_variables, environment_variable)
  THEN [s EXCEPT !.environment_variables = Append(@, environment_variable)]
  ELSE s

RECURSIVE do_environment_variables(_, _)
do_environment_variables(s, environment_variables) ==
  IF environment_variables = <<>> THEN s
  ELSE do_environment_variables(do_environment_variable(s, Head(environment_variables)),
                                Tail(environment_variables))

do_compiled_lib_dir(s, compiled_lib_dir) ==
  IF ~contains(s.compiled_lib_dirs, compiled_lib_dir)
  THEN [s EXCEPT !.compiled_lib_dirs = Append(@, compiled_lib_dir)]
  ELSE s

RECURSIVE do_compiled_lib_dirs(_, _)
do_compiled_lib_dirs(s, compiled_lib_dirs) ==
  IF compiled_lib_dirs = <<>> THEN s
  ELSE do_compiled_lib_dirs(do_compiled_lib_dir(s, Head(compiled_lib_dirs)),
                            Tail(compiled_lib_dirs))

do_compiled_lib(s, compiled_lib) ==
  IF ~contains(s.compiled_libs, compiled_lib)
  THEN [s EXCEPT !.compiled_libs = Append(@, compiled_lib)]
  ELSE s

RECURSIVE do_compiled_libs(_, _)
do_compiled_libs(s, compiled_libs) ==
  IF compiled_libs = <<>> THEN s
  ELSE do_compiled_libs(do_compiled_lib(s, Head(compiled_libs)), Tail(compiled_libs))

do_c3_lib_dir(s, c3_lib_dir) ==
  IF ~contains(s.c3_lib_dirs, c3_lib_dir)
  THEN [s EXCEPT !.c3_lib_dirs = Append(@, c3_lib_dir)]
  ELSE s

RECURSIVE do_c3_lib_dirs(_, _)
do_c3_lib_dirs(s, c3_lib_dirs) ==
  IF c3_lib_dirs = <<>> THEN s
  ELSE do_c3_lib_dirs(do_c3_lib_dir(s, Head(c3_lib_dirs)), Tail(c3_lib_dirs))

do_c3_lib(s, c3_lib) ==
  IF ~contains(s.c3_libs, c3_lib)
  THEN [s EXCEPT !.c3_libs = Append(@, c3_lib)]
  ELSE s

RECURSIVE do_c3_libs(_, _)
do_c3_libs(s, c3_libs) ==
  IF c3_libs = <<>> THEN s
  ELSE do_c3_libs(do_c3_lib(s, Head(c3_libs)), Tail(c3_libs))

\* the value of the latest environment_variable call for each key, as the
\* caller made them (one call per item of a plural call)
RECURSIVE written(_, _)
written(map, pairs) ==
  IF pairs = <<>> THEN map
  ELSE written(insert(map, Head(pairs)[1], Head(pairs)[2]), Tail(pairs))

\* --------------------------------------------------------- builder actions
\* a method can be called while the process is alive
CanCall == ~aborted /\ calls > 0

\* a call that only changes the C3FFI value
Call(s) ==
  /\ CanCall
  /\ self' = s
  /\ calls' = calls - 1
  /\ UNCHANGED <<env_OUT_DIR, env_TARGET, stdout, last, aborted, env_written, attempts>>

compiler(c) == Call([self EXCEPT !.compiler = c])

linking_mode(m) == Call([self EXCEPT !.linking_mode = m])

optimization_level(o) == Call([self EXCEPT !.optimization_level = o])

\* mutant: the setter also puts the optimization level back to its default
debug_info_resetting_level(d) ==
  Call([self EXCEPT !.debug_info = d, !.optimization_level = "O0"])

debug_info(d) == Call([self EXCEPT !.debug_info = d])

file(f) ==
  /\ CanCall
  /\ LET st == do_file([self |-> self, stdout |-> stdout], f)
     IN self' = st.self /\ stdout' = st.stdout
  /\ calls' = calls - 1
  /\ UNCHANGED <<env_OUT_DIR, env_TARGET, last, aborted, env_written, attempts>>

files(fs) ==
  /\ CanCall
  /\ LET st == do_files([self |-> self, stdout |-> stdout], fs)
     IN self' = st.self /\ stdout' = st.stdout
  /\ calls' = calls - 1
  /\ UNCHANGED <<env_OUT_DIR, env_TARGET, last, aborted, env_written, attempts>>

feature(x) == Call(do_feature(self, x))

features(xs) == Call(do_features(self, xs))

arg(x) == Call(do_arg(self, x))

args(xs) == Call(do_args(self, xs))

linker_argument(x) == Call(do_linker_argument(self, x))

linker_arguments(xs) == Call(do_linker_arguments(self, xs))

environment_variable(kv) ==
  /\ CanCall
  /\ self' = do_environment_variable(self, kv)
  /\ env_written' = written(env_written, <<kv>>)
  /\ calls' = calls - 1
  /\ UNCHANGED <<env_OUT_DIR, env_TARGET, stdout, last, aborted, attempts>>

environment_variables(kvs) ==
  /\ CanCall
  /\ self' = do_environment_variables(self, kvs)
  /\ env_written' = written(env_written, kvs)
  /\ calls' = calls - 1
  /\ UNCHANGED <<env_OUT_DIR, env_TARGET, stdout, last, aborted, attempts>>

compiled_lib_dir(p) == Call(do_compiled_lib_dir(self, p))

compiled_lib_dirs(ps) == Call(do_compiled_lib_dirs(self, ps))

compiled_lib(p) == Call(do_compiled_lib(self, p))

compiled_libs(ps) == Call(do_compiled_libs(self, ps))

c3_lib_dir(p) == Call(do_c3_lib_dir(self, p))

c3_lib_dirs(ps) == Call(do_c3_lib_dirs(self, ps))

c3_lib(p) == Call(do_c3_lib(self, p))

c3_libs(ps) == Call(do_c3_libs(self, ps))

\* ---------------------------------------------------- target normalization
\* str::split("-"): the fields between the dashes; always at least one field
RECURSIVE split_from(_, _, _)
split_from(s, field, fields) ==
  IF s = <<>> THEN Append(fields, field)
  ELSE IF Head(s) = "-" THEN split_from(Tail(s), <<>>, Append(fields, field))
  ELSE split_from(Tail(s), Append(field, Head(s)), fields)

split(s) == split_from(s, <<>>, <<>>)

\* u8::to_ascii_lowercase on one character
AsciiLower ==
  [A |-> "a", B |-> "b", C |-> "c", D |-> "d", E |-> "e", F |-> "f", G |-> "g",
   H |-> "h", I |-> "i", J |-> "j", K |-> "k", L |-> "l", M |-> "m", N |-> "n",
   O |-> "o", P |-> "p", Q |-> "q", R |-> "r", S |-> "s", T |-> "t", U |-> "u",
   V |-> "v", W |-> "w", X |-> "x", Y |-> "y", Z |-> "z"]

to_ascii_lowercase(c) == IF c \in DOMAIN AsciiLower THEN AsciiLower[c] ELSE c

\* mutant: the comparison distinguishes upper and lower case
eq_case_sensitive(a, b) == a = b

\* str::eq_ignore_ascii_case
eq_ignore_ascii_case(a, b) ==
  /\ Len(a) = Len(b)
  /\ \A i \in 1..Len(a) : to_ascii_lowercase(a[i]) = to_ascii_lowercase(b[i])

\* the text of a sequence of characters
RECURSIVE text(_)
text(s) == IF s = <<>> THEN "" ELSE Head(s) \o text(Tail(s))

\* the literals the code compares with and substitutes
lit_windows == <<"w","i","n","d","o","w","s">>
lit_gnu == <<"g","n","u">>
lit_gnullvm == <<"g","n","u","l","l","v","m">>
lit_x86_64 == <<"x","8","6","_","6","4">>
lit_mingw == <<"m","i","n","g","w">>
lit_x64 == <<"x","6","4">>

\* index of the OS field (counted from 0, as in the code)
where_os(target_split) == IF Len(target_split) = 4 THEN 2 ELSE 1

\* lines 578-595: None when an index is out of range (the code panics),
\* otherwise the text "<os>-<architecture>"
c3_target(target) ==
  LET target_split == split(target)
      w == where_os(target_split)
  IN IF w + 1 >= Len(target_split) THEN None
     ELSE LET architecture0 == target_split[0 + 1]
              os0 == target_split[w + 1]
              toolchain == target_split[w + 1 + 1]
              os == IF /\ eq_ignore_ascii_case(os0, lit_windows)
                       /\ \/ eq_ignore_ascii_case(toolchain, lit_gnu)
                          \/ eq_ignore_ascii_case(toolchain, lit_gnullvm)
                    THEN lit_mingw ELSE os0
              architecture == IF eq_ignore_ascii_case(architecture0, lit_x86_64)
                              THEN lit_x64 ELSE architecture0
          IN Some(text(os) \o "-" \o text(architecture))

\* ------------------------------------------------------ argument rendering
\* OptimizationLevel::to_str
optimization_level_to_str(o) ==
  CASE o = "O0" -> "O0" [] o = "O1" -> "O1" [] o = "O2" -> "O2" [] o = "O3" -> "O3"
    [] o = "O4" -> "O4" [] o = "O5" -> "O5" [] o = "Os" -> "Os" [] o = "Oz" -> "Oz"

command_corresponding_linking(s) ==
  CASE s.linking_mode = "Static" -> "static-lib"
    [] s.linking_mode = "Dynamic" -> "dynamic-lib"

debug_flag(s) == "-g" \o (IF s.debug_info THEN "" ELSE "0")

optimization_level_flag(s) == "-" \o optimization_level_to_str(s.optimization_level)

out_name(name) == "lib" \o name

\* mutant: the optimization flag is pushed before the debug flag
push_head_level_first(s, out_dir, name, target) ==
  <<command_corresponding_linking(s), optimization_level_flag(s), debug_flag(s),
    "--output-dir", out_dir, "-o", out_name(name), "--target", target>>

\* the nine pushes of lines 599-607
push_head(s, out_dir, name, target) ==
  <<command_corresponding_linking(s), debug_flag(s), optimization_level_flag(s),
    "--output-dir", out_dir, "-o", out_name(name), "--target", target>>

\* a loop that pushes a flag and a String for every item
RECURSIVE push_strings(_, _, _)
push_strings(argv, flag, items) ==
  IF items = <<>> THEN argv
  ELSE push_strings(argv \o <<flag, Head(items)>>, flag, Tail(items))

\* a loop that pushes a flag and path.to_str().unwrap() for every item;
\* argv is None once an unwrap has panicked
RECURSIVE push_paths(_, _, _)
push_paths(argv, flag, items) ==
  IF ~argv.some \/ items = <<>> THEN argv
  ELSE IF ~to_str(Head(items)).some THEN None
  ELSE push_paths(Some(argv.v \o <<flag, to_str(Head(items)).v>>), flag, Tail(items))

\* the loop of lines 632-634: file.to_str().unwrap() for every file
RECURSIVE push_files(_, _)
push_files(argv, items) ==
  IF ~argv.some \/ items = <<>> THEN argv
  ELSE IF ~to_str(Head(items)).some THEN None
  ELSE push_files(Some(Append(argv.v, to_str(Head(items)).v)), Tail(items))

\* the loop of lines 635-637
RECURSIVE push_args(_, _)
push_args(argv, items) ==
  IF items = <<>> THEN argv ELSE push_args(Append(argv, Head(items)), Tail(items))

\* mutant: the loop over the raw arguments runs before the loop over the
\* linker arguments
render_args_args_early(s, out_dir, name, target) ==
  LET a0 == push_head(s, out_dir, name, target)
      a1 == push_strings(a0, "-D", s.features)
      a2 == push_strings(push_args(a1, s.args), "-z", s.linker_arguments)
      a3 == push_paths(Some(a2), "-L", s.compiled_lib_dirs)
      a4 == push_paths(a3, "-l", s.compiled_libs)
      a5 == push_paths(a4, "--libdir", s.c3_lib_dirs)
      a6 == push_paths(a5, "--lib", s.c3_libs)
  IN push_files(a6, s.files)

\* lines 597-640: None when an unwrap panics, otherwise the argument list
render_args(s, out_dir, name, target) ==
  LET a0 == push_head(s, out_dir, name, target)
      a1 == push_strings(a0, "-D", s.features)
      a2 == push_strings(a1, "-z", s.linker_arguments)
      a3 == push_paths(Some(a2), "-L", s.compiled_lib_dirs)
      a4 == push_paths(a3, "-l", s.compiled_libs)
      a5 == push_paths(a4, "--libdir", s.c3_lib_dirs)
      a6 == push_paths(a5, "--lib", s.c3_libs)
      a7 == push_files(a6, s.files)
  IN IF a7.some THEN Some(push_args(a7.v, s.args)) ELSE None

\* lines 642-645: the HashMap built from the pairs, in their order
RECURSIVE collect_envs(_, _)
collect_envs(map, pairs) ==
  IF pairs = <<>> THEN map
  ELSE collect_envs(insert(map, Head(pairs)[1], Head(pairs)[2]), Tail(pairs))

\* ------------------------------------------------------ attempt_compilation
\* what Command::output() can do: fail to spawn, or run the compiler to an
\* exit status
ChildOutcomes == {"spawn_failed", "exit_zero", "exit_nonzero"}

\* Command::new(..).args(..).envs(..).output(): Err only when the spawn fails
output(child) == IF child = "spawn_failed" THEN "Err" ELSE "Ok"

\* mutant: an absent variable reads as the empty text (unwrap_or_default)
var_or_default(key) ==
  CASE key = "OUT_DIR" -> IF env_OUT_DIR.some THEN env_OUT_DIR ELSE Some("")
    [] key = "TARGET" -> IF env_TARGET.some THEN env_TARGET ELSE Some(<<>>)

\* std::env::var: the value of a variable of the process environment,
\* None (an Err) when it is absent
var(key) ==
  CASE key = "OUT_DIR" -> env_OUT_DIR
    [] key = "TARGET" -> env_TARGET

\* mutant: the link-lib directive is printed first
directives_swapped(out_dir, name) ==
  <<<<"cargo:rustc-link-lib=static=", name>>,
    <<"cargo:rustc-link-search=native=", out_dir>>>>

\* the two println! of lines 651-652
directives(out_dir, name) ==
  <<<<"cargo:rustc-link-search=native=", out_dir>>,
    <<"cargo:rustc-link-lib=static=", name>>>>

\* One call of attempt_compilation on the value s, where the compiler would
\* behave as child says.  result is "Ok", "Err" (returned to the caller) or
\* "panic"; child is "not_run" when the call ends before Command::output().
run_attempt(op, s, name, child) ==
  LET early(r) == [op |-> op, name |-> name, config |-> s, result |-> r,
                   child |-> "not_run",
                   program |-> "", c3_target |-> "", argv |-> <<>>, envs |-> {},
                   emitted |-> <<>>]
  IN IF ~var("OUT_DIR").some THEN early("Err")
     ELSE IF ~var("TARGET").some THEN early("Err")
     ELSE LET out_dir == var("OUT_DIR").v
              target == c3_target(var("TARGET").v)
          IN IF ~target.some THEN early("panic")
             ELSE LET argv == render_args(s, out_dir, name, target.v)
                  IN IF ~argv.some
                     THEN [early("panic") EXCEPT !.c3_target = target.v]
                     ELSE [op |-> op, name |-> name, config |-> s,
                           result |-> output(child),
                           child |-> child,
                           program |-> s.compiler,
                           c3_target |-> target.v,
                           argv |-> argv.v,
                           envs |-> collect_envs({}, s.environment_variables),
                           emitted |-> IF output(child) = "Ok"
                                       THEN directives(out_dir, name)
                                       ELSE <<>>]

\* attempt_compilation(name): a failure is returned; only a panic inside
\* the call ends the process
\* mutant: the call consumes the configuration, leaving the defaults behind
attempt_compilation_consuming(name, child) ==
  /\ CanCall
  /\ LET r == run_attempt("attempt_compilation", self, name, child)
     IN /\ last' = r
        /\ stdout' = stdout \o r.emitted
        /\ aborted' = (r.result = "panic")
  /\ calls' = calls - 1
  /\ attempts' = attempts + 1
  /\ self' = new
  /\ UNCHANGED <<env_OUT_DIR, env_TARGET, env_written>>

attempt_compilation(name, child) ==
  /\ CanCall
  /\ LET r == run_attempt("attempt_compilation", self, name, child)
     IN /\ last' = r
        /\ stdout' = stdout \o r.emitted
        /\ aborted' = (r.result = "panic")
  /\ calls' = calls - 1
  /\ attempts' = attempts + 1
  /\ UNCHANGED <<self, env_OUT_DIR, env_TARGET, env_written>>

\* compile(name): panics when attempt_compilation returns an error
compile(name, child) ==
  /\ CanCall
  /\ LET r == run_attempt("compile", self, name, child)
     IN /\ last' = r
        /\ stdout' = stdout \o r.emitted
        /\ aborted' = (r.result \in {"Err", "panic"})
  /\ calls' = calls - 1
  /\ attempts' = attempts + 1
  /\ UNCHANGED <<self, env_OUT_DIR, env_TARGET, env_written>>

\* ---------------------------------------------------------- specifications
\* the state after C3FFI::new() in a process whose environment holds
\* out_dirs / targets, with ncalls method calls still to make
Start(out_dirs, targets, ncalls) ==
  /\ self = new
  /\ env_OUT_DIR \in out_dirs
  /\ env_TARGET \in targets
  /\ stdout = <<>>
  /\ last = NoAttempt
  /\ aborted = FALSE
  /\ env_written = {}
  /\ calls = ncalls
  /\ attempts = 0

Setters ==
  \/ \E c \in CompilerInputs : compiler(c)
  \/ \E m \in LinkingModes : linking_mode(m)
  \/ \E o \in OptimizationLevels : optimization_level(o)
  \/ \E d \in BOOLEAN : debug_info(d)

Singles ==
  \/ \E f \in FileInputs : file(f)
  \/ \E x \in FeatureInputs : feature(x)
  \/ \E x \in ArgInputs : arg(x)
  \/ \E x \in LinkerArgumentInputs : linker_argument(x)
  \/ \E kv \in EnvironmentVariableInputs : environment_variable(kv)
  \/ \E p \in CompiledLibDirInputs : compiled_lib_dir(p)
  \/ \E p \in CompiledLibInputs : compiled_lib(p)
  \/ \E p \in C3LibDirInputs : c3_lib_dir(p)
  \/ \E p \in C3LibInputs : c3_lib(p)

Plurals ==
  \/ \E fs \in Batches(FileInputs, MaxBatch) : files(fs)
  \/ \E xs \in Batches(FeatureInputs, MaxBatch) : features(xs)
  \/ \E xs \in Batches(ArgInputs, MaxBatch) : args(xs)
  \/ \E xs \in Batches(LinkerArgumentInputs, MaxBatch) : linker_arguments(xs)
  \/ \E kvs \in Batches(EnvironmentVariableInputs, MaxBatch) : environment_variables(kvs)
  \/ \E ps \in Batches(CompiledLibDirInputs, MaxBatch) : compiled_lib_dirs(ps)
  \/ \E ps \in Batches(CompiledLibInputs, MaxBatch) : compiled_libs(ps)
  \/ \E ps \in Batches(C3LibDirInputs, MaxBatch) : c3_lib_dirs(ps)
  \/ \E ps \in Batches(C3LibInputs, MaxBatch) : c3_libs(ps)

Attempts(names) ==
  \/ \E n \in names, ch \in ChildOutcomes : attempt_compilation(n, ch)
  \/ \E n \in names, ch \in ChildOutcomes : compile(n, ch)

ValidOutDir == {Some("target/out")}
ValidTarget == {Some(T_x86_64_unknown_linux_gnu)}

\* The build specification: a valid process environment, the accumulation
\* methods called one item at a time in any order, and compilations.
Init == Start(ValidOutDir, ValidTarget, BuildCalls)

Next == Singles \/ Attempts({"thing"})

Spec == Init /\ [][Next]_vars

\* The accumulation specification: the singular and plural accumulation
\* methods, no compilation.
InitAccum == Start(ValidOutDir, ValidTarget, AccumCalls)

NextAccum == Singles \/ Plurals

SpecAccum == InitAccum /\ [][NextAccum]_vars

\* The environment-variable specification: environment_variable calls and
\* compilations.
InitEnv == Start(ValidOutDir, ValidTarget, EnvCalls)

NextEnv ==
  \/ \E kv \in KeyedEnvironmentVariableInputs : environment_variable(kv)
  \/ Attempts({"thing"})

SpecEnv == InitEnv /\ [][NextEnv]_vars

\* The head-token specification: the scalar setters and compilations under
\* two names and two output directories.
InitHead == Start(OutDirInputs \ {None}, ValidTarget, HeadCalls)

NextHead == Setters \/ Attempts(NameInputs)

SpecHead == InitHead /\ [][NextHead]_vars

\* The normalization specification: OUT_DIR and TARGET range over absent
\* and present values, TARGET over every identifier of AllTargets; a file,
\* possibly one whose path is not valid UTF-8, may be added.
InitTarget == Start(OutDirInputs, {None} \cup {Some(t) : t \in AllTargets}, TargetCalls)

NextTarget ==
  \/ \E f \in UnrenderableFileInputs : file(f)
  \/ Attempts(NameInputs)

SpecTarget == InitTarget /\ [][NextTarget]_vars

\* The frame specification: the scalar setters and the singular and plural
\* accumulation methods, no compilation.
InitFrame == Start(ValidOutDir, ValidTarget, FrameCalls)

NextFrame == Setters \/ Singles \/ Plurals

SpecFrame == InitFrame /\ [][NextFrame]_vars

\* The repeated-compilation specification: OUT_DIR and TARGET absent or
\* present, features and environment variables added between compilations
\* under two names.
InitAgain == Start(OutDirInputs, {None} \cup ValidTarget, AgainCalls)

NextAgain ==
  \/ \E x \in FeatureInputs : feature(x)
  \/ \E kv \in EnvironmentVariableInputs : environment_variable(kv)
  \/ Attempts(NameInputs)

SpecAgain == InitAgain /\ [][NextAgain]_vars

\* ------------------------------------------------------------------ claims

\* C1: after any sequence of accumulation calls every collection holds each
\* distinct item exactly once, in the order of the item's first insertion:
\* every step leaves each collection free of duplicates with its old content
\* as a prefix, a call appends exactly the items that were not yet present,
\* each once and in the order of their first occurrence in the call, and a
\* call all of whose items are already present changes nothing.
C1_AccumulationDeduplicates ==
  [][LET Collections == {"files", "features", "args", "environment_variables",
                         "linker_arguments", "compiled_lib_dirs", "compiled_libs",
                         "c3_lib_dirs", "c3_libs"}
         NoDup(v) == \A i, j \in 1..Len(v) : v[i] = v[j] => i = j
         IsPrefix(a, b) == Len(a) <= Len(b) /\ SubSeq(b, 1, Len(a)) = a
         Has(v, x) == \E i \in 1..Len(v) : v[i] = x
         FreshAt(old, xs) ==
           {i \in 1..Len(xs) : ~Has(old, xs[i]) /\ \A j \in 1..(i - 1) : xs[j] # xs[i]}
         Fresh(old, xs) ==
           [k \in 1..Cardinality(FreshAt(old, xs)) |->
              xs[CHOOSE i \in FreshAt(old, xs) :
                   Cardinality({j \in FreshAt(old, xs) : j < i}) = k - 1]]
         Adds(c, xs) ==
           /\ self'[c] = self[c] \o Fresh(self[c], xs)
           /\ \A d \in Collections \ {c} : self'[d] = self[d]
           /\ (\A i \in 1..Len(xs) : Has(self[c], xs[i])) => (self' = self /\ stdout' = stdout)
     IN /\ \A c \in Collections : NoDup(self'[c]) /\ IsPrefix(self[c], self'[c])
        /\ \A x \in FileInputs : file(x) => Adds("files", <<x>>)
        /\ \A xs \in Batches(FileInputs, MaxBatch) : files(xs) => Adds("files", xs)
        /\ \A x \in FeatureInputs : feature(x) => Adds("features", <<x>>)
        /\ \A xs \in Batches(FeatureInputs, MaxBatch) : features(xs) => Adds("features", xs)
        /\ \A x \in ArgInputs : arg(x) => Adds("args", <<x>>)
        /\ \A xs \in Batches(ArgInputs, MaxBatch) : args(xs) => Adds("args", xs)
        /\ \A x \in LinkerArgumentInputs : linker_argument(x) => Adds("linker_arguments", <<x>>)
        /\ \A xs \in Batches(LinkerArgumentInputs, MaxBatch) :
             linker_arguments(xs) => Adds("linker_arguments", xs)
        /\ \A x \in EnvironmentVariableInputs :
             environment_variable(x) => Adds("environment_variables", <<x>>)
        /\ \A xs \in Batches(EnvironmentVariableInputs, MaxBatch) :
             environment_variables(xs) => Adds("environment_variables", xs)
        /\ \A x \in CompiledLibDirInputs : compiled_lib_dir(x) => Adds("compiled_lib_dirs", <<x>>)
        /\ \A xs \in Batches(CompiledLibDirInputs, MaxBatch) :
             compiled_lib_dirs(xs) => Adds("compiled_lib_dirs", xs)
        /\ \A x \in CompiledLibInputs : compiled_lib(x) => Adds("compiled_libs", <<x>>)
        /\ \A xs \in Batches(CompiledLibInputs, MaxBatch) :
             compiled_libs(xs) => Adds("compiled_libs", xs)
        /\ \A x \in C3LibDirInputs : c3_lib_dir(x) => Adds("c3_lib_dirs", <<x>>)
        /\ \A xs \in Batches(C3LibDirInputs, MaxBatch) : c3_lib_dirs(xs) => Adds("c3_lib_dirs", xs)
        /\ \A x \in C3LibInputs : c3_lib(x) => Adds("c3_libs", <<x>>)
        /\ \A xs \in Batches(C3LibInputs, MaxBatch) : c3_libs(xs) => Adds("c3_libs", xs)
    ]_vars

\* C1 witness: the pair (K, A) was added, then (K, B), then (K, A) again
\* (it is the latest value written for K), and it is held once, first.
C1_Witness ==
  /\ self.environment_variables = <<<<"K", "A">>, <<"K", "B">>>>
  /\ env_written = {<<"K", "A">>}
  /\ attempts = 0

\* C2: whatever the order in which accumulation calls of different kinds were
\* interleaved, the argument list a compilation renders after its first nine
\* tokens is: a "-D" pair per feature, then a "-z" pair per linker argument,
\* a "-L" pair per compiled-library directory, a "-l" pair per compiled
\* library, a "--libdir" pair per C3 library directory, a "--lib" pair per C3
\* library, the source files, the raw arguments; each group in the insertion
\* order of its collection.
C2_GroupOrder ==
  [][LET Pairs(flag, items) ==
           [i \in 1..(2 * Len(items)) |-> IF i % 2 = 1 THEN flag ELSE items[i \div 2]]
         Texts(paths) == [i \in 1..Len(paths) |-> paths[i].s]
     IN (attempts' = attempts + 1 /\ last'.argv # <<>>) =>
          SubSeq(last'.argv, 10, Len(last'.argv)) =
               Pairs("-D", self.features)
            \o Pairs("-z", self.linker_arguments)
            \o Pairs("-L", Texts(self.compiled_lib_dirs))
            \o Pairs("-l", Texts(self.compiled_libs))
            \o Pairs("--libdir", Texts(self.c3_lib_dirs))
            \o Pairs("--lib", Texts(self.c3_libs))
            \o Texts(self.files)
            \o self.args
    ]_vars

\* C2 witness: a source file and a linker argument were added (two kinds)
\* and a compilation rendered the linker argument before the file.
C2_Witness ==
  /\ last.result = "Ok"
  /\ self.files = <<PathBuf("b.c3")>> /\ self.linker_arguments = <<"-EB">>
  /\ SubSeq(last.argv, 10, Len(last.argv)) = <<"-z", "-EB", "b.c3">>

\* C3: the rendered argument list begins with the link-mode command, the
\* debug flag, the optimization flag, "--output-dir", the output directory,
\* "-o", "lib<name>", "--target" and the normalized target, in this order.
C3_HeadTokens ==
  [][LET Command == [Static |-> "static-lib", Dynamic |-> "dynamic-lib"]
         Level == [O0 |-> "-O0", O1 |-> "-O1", O2 |-> "-O2", O3 |-> "-O3",
                   O4 |-> "-O4", O5 |-> "-O5", Os |-> "-Os", Oz |-> "-Oz"]
         argv == last'.argv
     IN (attempts' = attempts + 1 /\ last'.child # "not_run") =>
          /\ Len(argv) >= 9
          /\ argv[1] = Command[self.linking_mode]
          /\ argv[2] = (IF self.debug_info THEN "-g" ELSE "-g0")
          /\ argv[3] = Level[self.optimization_level]
          /\ argv[4] = "--output-dir"
          /\ argv[5] = env_OUT_DIR.v
          /\ argv[6] = "-o"
          /\ argv[7] = "lib" \o last'.name
          /\ argv[8] = "--target"
          /\ argv[9] = last'.c3_target
    ]_vars

\* C3 witness: debug_info(false) and optimization_level(O2) were called and
\* the rendered list starts "static-lib -g0 -O2".
C3_Witness ==
  /\ last.child # "not_run"
  /\ ~self.debug_info /\ self.optimization_level = "O2"
  /\ SubSeq(last.argv, 1, 3) = <<"static-lib", "-g0", "-O2">>
  /\ last.argv[5] = "/tmp/o" /\ last.argv[7] = "libother"

\* C4: "x86_64-unknown-linux-gnu" is normalized to "linux-x64",
\* "x86_64-pc-windows-gnu" to "mingw-x64" and "aarch64-apple-darwin" to
\* "darwin-aarch64".
C4_KnownTargets ==
  (last.op # "none" /\ env_OUT_DIR.some /\ env_TARGET.some) =>
    /\ env_TARGET.v = T_x86_64_unknown_linux_gnu => last.c3_target = "linux-x64"
    /\ env_TARGET.v = T_x86_64_pc_windows_gnu => last.c3_target = "mingw-x64"
    /\ env_TARGET.v = T_aarch64_apple_darwin => last.c3_target = "darwin-aarch64"

\* C5: when the compiler fails to spawn or exits with a non-zero status, the
\* call emits no link directive and returns an error, and compile aborts.
C5_FailureEmitsNothing ==
  last.child \in {"spawn_failed", "exit_nonzero"} =>
    /\ last.emitted = <<>>
    /\ last.result = "Err"
    /\ last.op = "compile" => aborted

\* C6: when the compiler completes successfully the call prints exactly two
\* lines, the native link-search-path directive naming the OUT_DIR value and
\* then the static link-lib directive naming the name passed by the caller,
\* and returns success.
C6_SuccessEmitsTwoDirectives ==
  [][(attempts' = attempts + 1 /\ last'.child = "exit_zero") =>
       /\ stdout' = stdout \o <<<<"cargo:rustc-link-search=native=", env_OUT_DIR.v>>,
                                <<"cargo:rustc-link-lib=static=", last'.name>>>>
       /\ last'.result = "Ok"
       /\ ~aborted'
    ]_vars

\* C6 witness: compile("other") ran the compiler to a zero exit status with
\* OUT_DIR=/tmp/o in Dynamic linking mode; stdout holds the two directives.
C6_Witness ==
  /\ last.op = "compile" /\ last.child = "exit_zero" /\ last.name = "other"
  /\ self.linking_mode = "Dynamic" /\ last.argv[1] = "dynamic-lib"
  /\ stdout = <<<<"cargo:rustc-link-search=native=", "/tmp/o">>,
                <<"cargo:rustc-link-lib=static=", "other">>>>

\* C7: when OUT_DIR or TARGET is absent from the environment, the call
\* returns an error, launches no subprocess and prints no link directive.
C7_MissingEnvironment ==
  (last.op # "none" /\ (~env_OUT_DIR.some \/ ~env_TARGET.some)) =>
    /\ last.result = "Err"
    /\ last.child = "not_run"
    /\ last.argv = <<>>
    /\ \A i \in 1..Len(stdout) : stdout[i][1] = "cargo::rerun-if-changed="

\* C7 witness: attempt_compilation was called with OUT_DIR present and
\* TARGET absent, after a file had been registered.
C7_Witness ==
  /\ last.op = "attempt_compilation"
  /\ env_OUT_DIR.some /\ ~env_TARGET.some
  /\ last.result = "Err"
  /\ Len(stdout) = 1

\* C8: attempt_compilation returns every failure to the caller as an error
\* result and never aborts the process; only compile aborts.
C8_AttemptNeverAborts ==
  last.op = "attempt_compilation" => (~aborted /\ last.result \in {"Ok", "Err"})

\* C9: the environment mapping handed to the subprocess binds each key to
\* the value given in the last environment_variable call made for that key.
C9_LastWriteWins ==
  [][(attempts' = attempts + 1 /\ last'.child \in {"exit_zero", "exit_nonzero"}) =>
       last'.envs = env_written]_vars

\* C10: with the identifier split on "-" into at least three fields, the
\* architecture is field 0, the OS and toolchain are fields 2 and 3 when
\* there are exactly four fields and fields 1 and 2 otherwise; the OS becomes
\* "mingw" exactly when it is "windows" and the toolchain is "gnu" or
\* "gnullvm", the architecture becomes "x64" exactly when it is "x86_64"
\* (both ignoring ASCII case), every other value is kept as written, and the
\* result is "<os>-<architecture>".
C10_Normalization ==
  (last.op # "none" /\ env_OUT_DIR.some /\ env_TARGET.some) =>
    LET fields == split(env_TARGET.v)
        n == Len(fields)
        lower(w) == [i \in 1..Len(w) |-> to_ascii_lowercase(w[i])]
        arch == fields[1]
        os == IF n = 4 THEN fields[3] ELSE fields[2]
        toolchain == IF n = 4 THEN fields[4] ELSE fields[3]
    IN n >= 3 =>
         last.c3_target =
           text(IF lower(os) = lit_windows /\ lower(toolchain) \in {lit_gnu, lit_gnullvm}
                THEN lit_mingw ELSE os)
           \o "-"
           \o text(IF lower(arch) = lit_x86_64 THEN lit_x64 ELSE arch)

\* C10 witness: the three-field identifier "i686-Windows-gnu" was
\* normalized: the OS, written with a capital, is renamed and the
\* architecture is kept.
C10_Witness ==
  /\ env_TARGET = Some(T_i686_Windows_gnu)
  /\ last.child # "not_run"
  /\ last.argv[9] = "mingw-i686"

\* C11: the configuration only grows: every accumulation call leaves the old
\* content of its collection as a prefix of the new content and leaves every
\* other collection and every scalar setting unchanged; every scalar setter
\* gives its own field the value passed (the last value set wins) and
\* changes no other field; no step shortens or reorders a collection.
C11_ConfigurationOnlyGrows ==
  [][LET Collections == {"files", "features", "args", "environment_variables",
                         "linker_arguments", "compiled_lib_dirs", "compiled_libs",
                         "c3_lib_dirs", "c3_libs"}
         Scalars == {"compiler", "linking_mode", "optimization_level", "debug_info"}
         Fields == Collections \cup Scalars
         IsPrefix(a, b) == Len(a) <= Len(b) /\ SubSeq(b, 1, Len(a)) = a
         Grows(c) ==
           /\ IsPrefix(self[c], self'[c])
           /\ \A f \in Fields \ {c} : self'[f] = self[f]
         Sets(f, v) ==
           /\ self'[f] = v
           /\ \A g \in Fields \ {f} : self'[g] = self[g]
     IN /\ \A c \in Collections : IsPrefix(self[c], self'[c])
        /\ \A x \in FileInputs : file(x) => Grows("files")
        /\ \A xs \in Batches(FileInputs, MaxBatch) : files(xs) => Grows("files")
        /\ \A x \in FeatureInputs : feature(x) => Grows("features")
        /\ \A xs \in Batches(FeatureInputs, MaxBatch) : features(xs) => Grows("features")
        /\ \A x \in ArgInputs : arg(x) => Grows("args")
        /\ \A xs \in Batches(ArgInputs, MaxBatch) : args(xs) => Grows("args")
        /\ \A x \in LinkerArgumentInputs : linker_argument(x) => Grows("linker_arguments")
        /\ \A xs \in Batches(LinkerArgumentInputs, MaxBatch) :
             linker_arguments(xs) => Grows("linker_arguments")
        /\ \A x \in EnvironmentVariableInputs :
             environment_variable(x) => Grows("environment_variables")
        /\ \A xs \in Batches(EnvironmentVariableInputs, MaxBatch) :
             environment_variables(xs) => Grows("environment_variables")
        /\ \A x \in CompiledLibDirInputs : compiled_lib_dir(x) => Grows("compiled_lib_dirs")
        /\ \A xs \in Batches(CompiledLibDirInputs, MaxBatch) :
             compiled_lib_dirs(xs) => Grows("compiled_lib_dirs")
        /\ \A x \in CompiledLibInputs : compiled_lib(x) => Grows("compiled_libs")
        /\ \A xs \in Batches(CompiledLibInputs, MaxBatch) :
             compiled_libs(xs) => Grows("compiled_libs")
        /\ \A x \in C3LibDirInputs : c3_lib_dir(x) => Grows("c3_lib_dirs")
        /\ \A xs \in Batches(C3LibDirInputs, MaxBatch) : c3_lib_dirs(xs) => Grows("c3_lib_dirs")
        /\ \A x \in C3LibInputs : c3_lib(x) => Grows("c3_libs")
        /\ \A xs \in Batches(C3LibInputs, MaxBatch) : c3_libs(xs) => Grows("c3_libs")
        /\ \A v \in CompilerInputs : compiler(v) => Sets("compiler", v)
        /\ \A v \in LinkingModes : linking_mode(v) => Sets("linking_mode", v)
        /\ \A v \in OptimizationLevels : optimization_level(v) => Sets("optimization_level", v)
        /\ \A v \in BOOLEAN : debug_info(v) => Sets("debug_info", v)
    ]_vars

\* C11 witness: the optimization level was set to Os and then two raw
\* arguments were added by one plural call; the level is still Os.
C11_Witness ==
  /\ calls = 0 /\ attempts = 0
  /\ self.optimization_level = "Os"
  /\ self.args = <<"--use-old-enums", "--no-headers">>
  /\ self.debug_info /\ self.compiler = "c3c" /\ self.linking_mode = "Static"

\* C12: a compilation leaves the configuration (and OUT_DIR and TARGET)
\* unchanged whether it succeeds or fails, and a compilation that follows
\* another one with the same name and the same configuration renders the
\* same program, argument list and environment mapping as the first.
C12_CompilationKeepsConfiguration ==
  [][(attempts' = attempts + 1) =>
       /\ self' = self
       /\ env_OUT_DIR' = env_OUT_DIR
       /\ env_TARGET' = env_TARGET
       /\ last'.config = self
       /\ (last.op # "none" /\ last.config = self /\ last.name = last'.name) =>
            /\ last'.program = last.program
            /\ last'.argv = last.argv
            /\ last'.envs = last.envs
    ]_vars

\* C12 witness: a feature was added, a first attempt failed to spawn the
\* compiler, and a second attempt succeeded on the same configuration,
\* rendering the feature and emitting the two directives.
C12_Witness ==
  /\ attempts = 2 /\ calls = 0 /\ ~aborted
  /\ self.features = <<"foo">>
  /\ last.config = self
  /\ last.op = "attempt_compilation" /\ last.result = "Ok"
  /\ Len(last.argv) >= 2
  /\ SubSeq(last.argv, Len(last.argv) - 1, Len(last.argv)) = <<"-D", "foo">>
  /\ Len(stdout) = 2

====
